---- MODULE Spec2Model ----
(***************************************************************************)
(* A model of ccat.py (ColorCat): one invocation of main(argd).            *)
(*                                                                         *)
(* The state is the docopt argument dict, the persisted ccat.json, whether *)
(* stdout is a terminal, the config dict built by parse_printer_config,    *)
(* the position of print_files in its FILE loop, the function attribute    *)
(* handle_stdin.handled, and what has been written so far.                 *)
(*                                                                         *)
(* Python values are modelled as strings: None, False and True are the     *)
(* sentinels NoneVal, FalseVal and TrueVal, and truthy(v) is Python's      *)
(* truth test on them.  Pygments is an external collaborator: a lexer or   *)
(* style lookup is membership in a table of known names.  Status messages  *)
(* (print_status, print_debug) go to a terminal or to stderr only and are  *)
(* not part of the state, so --debug and stdin's isatty() are left out.    *)
(* sys.stdin is taken to be readable and ccat.json to be writable.         *)
(***************************************************************************)
EXTENDS Integers, Sequences, FiniteSets

VARIABLES
    argd,        \* the docopt dict handed to main
    stdoutTty,   \* sys.stdout.isatty()
    cfgFile,     \* the file CONFIG (ccat.json) as it is on disk
    cfgOrig,     \* CONFIG as it was when the process started
    pc,          \* where main is ("crashed": an exception left it)
    config,      \* the dict parse_printer_config returns
    idx,         \* position of print_files in config['FILE'] (1-based)
    results,     \* print_files' results list
    pfResult,    \* what print_files returned
    handled,     \* handle_stdin.handled
    stdinReads,  \* number of reads of sys.stdin so far
    out,         \* one entry per item handled: what reached stdout
    saveCalls,   \* number of calls of save_config
    cfgWrites,   \* number of times CONFIG was opened for writing
    exitCode,    \* main's return value, NoneVal while running
    numLines,    \* line numbering: number of output lines of the input
    numPath,     \* line numbering: which printer writes the lines
    numLinenos,  \* line numbering: the 'linenos' print argument
    numOut,      \* line numbering: the prefixes written so far
    colCall,     \* colour codes: the ColorCodes method called, with its arguments
    colResult    \* colour codes: what the call returned or raised

numVars == <<numLines, numPath, numLinenos, numOut>>
colVars == <<colCall, colResult>>
vars == <<argd, stdoutTty, cfgFile, cfgOrig, pc, config, idx, results,
          pfResult, handled, stdinReads, out, saveCalls, cfgWrites, exitCode,
          numLines, numPath, numLinenos, numOut, colCall, colResult>>

----------------------------------------------------------------------------
(* Python values *)

NoneVal == "<None>"
FalseVal == "<False>"
TrueVal == "<True>"

\* Python's truth test: None, False and the empty string are falsy.
truthy(v) == v \notin {NoneVal, FalseVal, ""}

\* all(results)
all(seq) == \A i \in 1..Len(seq) : seq[i]

\* main's return value, as sys.exit receives it.
ExitOk == "0"
ExitFail == "1"

----------------------------------------------------------------------------
(* Module constants *)

CONFIGOPTS == {"background", "format", "linenos", "style"}

\* The keys of FORMATTERS.
FORMATTERS == {"terminal", "256", "html"}

\* The options of argd that carry a value (a name, or the flag --linenos).
\* The other options are the boolean fields of argd.
OptKeys == {"background", "format", "linenos", "style", "lexer"}

\* What pygments knows: style names, lexer names, and file names for which
\* get_lexer_for_filename finds a lexer.
KnownStyles == {"monokai", "solarized"}
KnownLexers == {"python"}
\* The files of the run: missing.py cannot be opened (open raises
\* EnvironmentError); binary.dat opens, but decoding its content as text
\* raises UnicodeDecodeError.
FileNames == {"-", "a.py", "missing.py", "notes.zzz", "binary.dat"}
Unopenable == {"missing.py"}
Undecodable == {"binary.dat"}

get_lexer_for_filename(filename) ==
    IF filename \in {"a.py", "missing.py"} THEN "python" ELSE NoneVal

get_lexer_by_name(name) ==
    IF name \in KnownLexers THEN name ELSE NoneVal

\* lexers.guess_lexer(content), with the 'text' fallback of try_lexer_guess.
\* The guess looks at the content alone: notes.zzz holds XML, which it
\* recognises; a.py holds Python without a shebang line and stdin holds
\* prose, which it does not.
try_lexer_guess(filename) ==
    IF filename = "notes.zzz" THEN "xml" ELSE "text"

----------------------------------------------------------------------------
(* Lexer lookup *)

filename_is_stdin(s) == (~truthy(s)) \/ (s = "-")

\* A Lexer, or NoneVal when none is found.
try_lexer(name, filename) ==
    IF ~truthy(name)
    THEN IF filename_is_stdin(filename)
         THEN NoneVal
         ELSE get_lexer_for_filename(filename)
    ELSE IF get_lexer_by_name(name) # NoneVal
         THEN get_lexer_by_name(name)
         ELSE IF filename_is_stdin(filename)
              THEN NoneVal
              ELSE get_lexer_for_filename(filename)

\* [ok |-> the return value, lexer |-> config['printargs']['lexer'] after it]
set_lexer(filename, cfg) ==
    IF cfg.guess
    THEN [ok |-> TRUE, lexer |-> NoneVal]
    ELSE IF truthy(cfg.opts["lexer"])
         THEN LET lx == try_lexer(cfg.opts["lexer"], filename)
              IN  [ok |-> truthy(lx), lexer |-> lx]
         ELSE [ok |-> TRUE, lexer |-> NoneVal]

----------------------------------------------------------------------------
(* The config file *)

\* The content of CONFIG: absent, unreadable (open raises EnvironmentError),
\* malformed (json.load raises ValueError), nonmapping (valid JSON that is
\* not an object, so that config.items() raises AttributeError), or a
\* mapping whose keys and values are in data.
EmptyMap == [k \in {} |-> NoneVal]

FileAbsent == [kind |-> "absent", data |-> EmptyMap]
FileOf(kind) == [kind |-> kind, data |-> EmptyMap]
FileMapping(data) == [kind |-> "mapping", data |-> data]

\* load_config with the test 'not merged[k]' dropped: a persisted value
\* replaces the command line's.
load_config_file_wins(cmdline, file) ==
    IF file.kind \in {"absent", "unreadable", "malformed"}
    THEN [raised |-> FALSE, opts |-> cmdline]
    ELSE IF file.kind = "nonmapping"
         THEN [raised |-> TRUE, opts |-> cmdline]
         ELSE [raised |-> FALSE,
               opts |-> [k \in DOMAIN cmdline |->
                           IF /\ k \in DOMAIN file.data
                              /\ k \in CONFIGOPTS
                              /\ truthy(file.data[k])
                           THEN file.data[k]
                           ELSE cmdline[k]]]

\* [raised |-> an exception left load_config, opts |-> the merged options]
load_config(cmdline, file) ==
    IF file.kind = "absent"
    THEN [raised |-> FALSE, opts |-> cmdline]
    ELSE IF file.kind \in {"unreadable", "malformed"}
         THEN [raised |-> FALSE, opts |-> cmdline]
         ELSE IF file.kind = "nonmapping"
              THEN [raised |-> TRUE, opts |-> cmdline]
              ELSE [raised |-> FALSE,
                    opts |-> [k \in DOMAIN cmdline |->
                                IF /\ k \in DOMAIN file.data
                                   /\ k \in CONFIGOPTS
                                   /\ truthy(file.data[k])
                                   /\ ~truthy(cmdline[k])
                                THEN file.data[k]
                                ELSE cmdline[k]]]

\* savable with the test 'k in CONFIGOPTS' dropped.
savable_any_key(cfg) ==
    LET keys == {k \in DOMAIN cfg.opts : truthy(cfg.opts[k])}
    IN  [k \in keys |-> cfg.opts[k]]

\* The mapping save_config keeps: the truthy values of the whitelisted keys.
\* cfg.opts holds every value-carrying key of the config dict; its other
\* keys (the boolean flags, FILE, printargs, ...) are never in CONFIGOPTS.
savable(cfg) ==
    LET keys == {k \in DOMAIN cfg.opts : truthy(cfg.opts[k]) /\ k \in CONFIGOPTS}
    IN  [k \in keys |-> cfg.opts[k]]

\* [ret |-> the return value, wrote |-> CONFIG was opened for writing,
\*  file |-> CONFIG after the call]
save_config(cfg, file) ==
    IF DOMAIN savable(cfg) = {}
    THEN [ret |-> FALSE, wrote |-> FALSE, file |-> file]
    ELSE [ret |-> TRUE, wrote |-> TRUE, file |-> FileMapping(savable(cfg))]

----------------------------------------------------------------------------
(* parse_printer_config *)

\* try_formatter: the formatter's name, or NoneVal when pygments does not
\* know the style (ClassNotFound).
try_formatter(formattername, stylename) ==
    IF stylename \in KnownStyles THEN formattername ELSE NoneVal

\* The config dict before parse_printer_config has run.
NoConfig ==
    [opts |-> [k \in OptKeys |-> NoneVal], guess |-> FALSE,
     printnames |-> FALSE, colors |-> FALSE, nocolors |-> FALSE,
     nolinenos |-> FALSE, FILE |-> <<>>, formatter |-> NoneVal,
     linenos |-> NoneVal, lexer |-> NoneVal, colorednames |-> FALSE]

\* [status |-> "raised" (an exception left the function), "none" (it
\*  returned None) or "ok", config |-> the dict it returned]
parse_printer_config(a, file, tty) ==
    LET loaded == load_config(a.opts, file)
        opts == loaded.opts
        stylename == IF truthy(opts["style"]) THEN opts["style"] ELSE "monokai"
        userformatter == IF truthy(opts["format"]) THEN opts["format"]
                         ELSE "terminal"
        ishtml == (userformatter = "html")
        formatted_pipe == ishtml
        formatter == try_formatter(userformatter, stylename)
        nocolors == IF ~(tty \/ formatted_pipe) THEN ~a.colors ELSE a.nocolors
        linenos == IF a.nolinenos \/ ishtml THEN FalseVal ELSE opts["linenos"]
        FILE == IF a.FILE = <<>> THEN <<NoneVal>> ELSE a.FILE
        base == [NoConfig EXCEPT !.opts = opts]
    IN  IF loaded.raised
        THEN [status |-> "raised", config |-> base]
        ELSE IF userformatter \notin FORMATTERS
             THEN [status |-> "none", config |-> base]
             ELSE IF ~truthy(formatter)
                  THEN [status |-> "none", config |-> base]
                  ELSE [status |-> "ok",
                        config |->
                          [opts |-> opts, guess |-> a.guess,
                           printnames |-> a.printnames, colors |-> a.colors,
                           nocolors |-> nocolors, nolinenos |-> a.nolinenos,
                           FILE |-> FILE, formatter |-> formatter,
                           linenos |-> linenos, lexer |-> NoneVal,
                           colorednames |-> ~nocolors]]

----------------------------------------------------------------------------
(* Printing one item *)

\* What handling one item wrote to stdout:
\*   what   : "stdin", "stdin_skipped", "file" or "open_failed"
\*   header : the file-name line: "none", "plain" or "color" (wrapped by color())
\*   via    : the printer that wrote the content: "print_file",
\*            "pipe_file_simple", "pipe_file_linenos", or "none"
\*   wrote  : whether that printer got to write the content
\*   lexer  : the lexer print_file highlighted with (NoneVal otherwise)
\*   linenos: whether print_file prefixed its lines with coloured numbers
Event(name, what, header, via, wrote, lexer, linenos) ==
    [name |-> name, what |-> what, header |-> header, via |-> via,
     wrote |-> wrote, lexer |-> lexer, linenos |-> linenos]

\* config['formatfilename'](name), when --printnames asks for it.
header_of(cfg) ==
    IF ~cfg.printnames THEN "none"
    ELSE IF cfg.colorednames THEN "color" ELSE "plain"

\* pipe_file: which of the two pipes runs.
pipe_file(cfg) ==
    IF ~truthy(cfg.linenos) THEN "pipe_file_simple" ELSE "pipe_file_linenos"

\* The return value of a printer on this input: print_file and
\* pipe_file_linenos read text and return False when that raises;
\* pipe_file_simple copies the bytes.
printer_ok(name, via) ==
    (via = "pipe_file_simple") \/ (name \notin Undecodable)

\* The content part of both handlers: pipe_file when colors are off,
\* print_file otherwise.  name is the file name content is guessed from.
\* [ret, ev]
print_content(name, what, cfg) ==
    IF cfg.nocolors
    THEN LET via == pipe_file(cfg)
         IN  [ret |-> printer_ok(name, via),
              ev |-> Event(name, what, header_of(cfg), via,
                           printer_ok(name, via), NoneVal, FALSE)]
    ELSE IF ~printer_ok(name, "print_file")
         THEN [ret |-> FALSE,
               ev |-> Event(name, what, header_of(cfg), "print_file", FALSE,
                            NoneVal, FALSE)]
         ELSE [ret |-> TRUE,
               ev |-> Event(name, what, header_of(cfg), "print_file", TRUE,
                            IF truthy(cfg.lexer) THEN cfg.lexer
                            ELSE try_lexer_guess(name),
                            truthy(cfg.linenos))]

\* handle_stdin with the test of handle_stdin.handled dropped.
handle_stdin_rereads(cfg, wasHandled) ==
    [ret |-> print_content("stdin", "stdin", cfg).ret,
     handled |-> TRUE, reads |-> 1,
     ev |-> print_content("stdin", "stdin", cfg).ev]

\* [ret, handled (handle_stdin.handled after the call), reads (reads of
\*  sys.stdin made by the call), ev]
handle_stdin(cfg, wasHandled) ==
    IF wasHandled
    THEN [ret |-> FALSE, handled |-> TRUE, reads |-> 0,
          ev |-> Event("stdin", "stdin_skipped", "none", "none", FALSE,
                       NoneVal, FALSE)]
    ELSE [ret |-> print_content("stdin", "stdin", cfg).ret,
          handled |-> TRUE, reads |-> 1,
          ev |-> print_content("stdin", "stdin", cfg).ev]

\* [ret, ev]
handle_file(filename, cfg) ==
    IF filename \in Unopenable
    THEN [ret |-> FALSE,
          ev |-> Event(filename, "open_failed", "none", "none", FALSE,
                       NoneVal, FALSE)]
    ELSE print_content(filename, "file", cfg)

\* An ANSI escape code reached stdout with this item: a coloured file name,
\* the output of a terminal formatter, or a coloured line number.
ansi_on_stdout(ev, cfg) ==
    \/ ev.header = "color"
    \/ /\ ev.via = "print_file"
       /\ ev.wrote
       /\ (cfg.formatter \in {"terminal", "256"} \/ ev.linenos)

----------------------------------------------------------------------------
(* The inputs of a run *)

\* The longest FILE list of the run inputs.
MaxFiles == 2

FileLists == UNION {[1..n -> FileNames] : n \in 0..MaxFiles}

\* [-n | -N] as <<argd['--linenos'], argd['--nolinenos']>>
LinenosFlags == {<<FalseVal, FALSE>>, <<TrueVal, FALSE>>, <<FalseVal, TRUE>>}
\* [-c | -C] as <<argd['--colors'], argd['--nocolors']>>
ColorFlags == {<<FALSE, FALSE>>, <<TRUE, FALSE>>, <<FALSE, TRUE>>}
\* [-g | -l name] as <<argd['--lexer'], argd['--guess']>>
LexerFlags == {<<NoneVal, FALSE>>, <<NoneVal, TRUE>>,
               <<"python", FALSE>>, <<"nosuchlexer", FALSE>>}

Argd(mode, style, format, background, ln, col, lx, printnames, nosave, FILE) ==
    [mode |-> mode,
     opts |-> [k \in OptKeys |->
                 CASE k = "style" -> style
                   [] k = "format" -> format
                   [] k = "background" -> background
                   [] k = "linenos" -> ln[1]
                   [] k = "lexer" -> lx[1]],
     nolinenos |-> ln[2], colors |-> col[1], nocolors |-> col[2],
     guess |-> lx[2], printnames |-> printnames, nosave |-> nosave,
     FILE |-> FILE]

\* The mappings a ccat.json may hold: any subset of these keys, each with
\* one of these values ("lexer" is a key outside the whitelist).
FileValues(k) ==
    CASE k = "style" -> {"", "monokai"}
      [] k = "format" -> {"html"}
      [] k = "background" -> {"dark"}
      [] k = "linenos" -> {TrueVal, FalseVal}
      [] k = "lexer" -> {"python"}

FileMappings ==
    UNION {{f \in [keys -> UNION {FileValues(k) : k \in keys}] :
               \A k \in keys : f[k] \in FileValues(k)} : keys \in SUBSET OptKeys}

ConfigFiles ==
    {FileAbsent, FileOf("unreadable"), FileOf("malformed"), FileOf("nonmapping")}
        \cup {FileMapping(d) : d \in FileMappings}

Start(a, tty, file) ==
    /\ argd = a
    /\ stdoutTty = tty
    /\ cfgFile = file
    /\ cfgOrig = file
    /\ pc = "main"
    /\ config = NoConfig
    /\ idx = 1
    /\ results = <<>>
    /\ pfResult = FALSE
    /\ handled = FALSE
    /\ stdinReads = 0
    /\ out = <<>>
    /\ saveCalls = 0
    /\ cfgWrites = 0
    /\ exitCode = NoneVal

\* A Python value handed to the 256-colour functions: None, an int n, a
\* float (n is twice its value, so halves are exact), an infinite float, a
\* NaN, or a str of the characters s.
PyVal(kind, n, s) == [kind |-> kind, n |-> n, s |-> s]
PyNone == PyVal("none", 0, <<>>)

\* A text argument left at its default, None; every other text is the
\* sequence of its characters.
NoneText == <<NoneVal>>

\* No ColorCodes method has been called.
NoCall ==
    [fn |-> "none", text |-> NoneText, fore |-> NoneVal, back |-> NoneVal,
     style |-> NoneVal, colortype |-> NoneVal, val |-> PyNone,
     fore256 |-> PyNone, back256 |-> PyNone]
NoResult == [state |-> "none", raised |-> NoneVal, ret |-> <<>>]

ColIdle ==
    /\ colCall = NoCall
    /\ colResult = NoResult

NumIdle ==
    /\ numLines = 0
    /\ numPath = "none"
    /\ numLinenos = FALSE
    /\ numOut = <<>>

\* Printing runs: every combination of the printing options, terminal or
\* pipe, and FILE lists, with no ccat.json or one that turns linenos on.
InitRun ==
    \E format \in {NoneVal, "html", "nosuchfmt"}, ln \in LinenosFlags,
       col \in ColorFlags, lx \in LexerFlags, printnames \in BOOLEAN,
       nosave \in BOOLEAN, FILE \in FileLists, tty \in BOOLEAN,
       file \in {FileAbsent, FileMapping([k \in {"linenos"} |-> TrueVal])} :
        Start(Argd("print", NoneVal, format, NoneVal, ln, col, lx,
                   printnames, nosave, FILE), tty, file)

\* Config runs: every combination of the persisted options on the command
\* line and in ccat.json, printing one file or stdin to a terminal.
InitConfig ==
    \E style \in {NoneVal, "", "solarized", "nosuchstyle"},
       format \in {NoneVal, "256", "html", "nosuchfmt"},
       background \in {NoneVal, "light"}, ln \in LinenosFlags,
       nosave \in BOOLEAN, FILE \in {<<>>, <<"a.py">>},
       file \in ConfigFiles :
        Start(Argd("print", style, format, background, ln, <<FALSE, FALSE>>,
                   <<NoneVal, FALSE>>, FALSE, nosave, FILE), TRUE, file)

\* Listing runs: ccat -F | -L | -S, which takes no other option.
InitList ==
    \E mode \in {"lexers", "styles", "formatters"},
       file \in {FileAbsent, FileMapping([k \in {"style"} |-> "monokai"])} :
        Start(Argd(mode, NoneVal, NoneVal, NoneVal, <<FalseVal, FALSE>>,
                   <<FALSE, FALSE>>, <<NoneVal, FALSE>>, FALSE, FALSE, <<>>),
              TRUE, file)

Init == (InitRun \/ InitConfig \/ InitList) /\ NumIdle /\ ColIdle

----------------------------------------------------------------------------
(* main *)

Exit(code) ==
    /\ pc' = "done"
    /\ exitCode' = code

\* main, lines 85-90: a listing mode prints its list and returns 0.
MainList ==
    /\ pc = "main"
    /\ argd.mode # "print"
    /\ Exit(ExitOk)
    /\ UNCHANGED <<argd, stdoutTty, cfgFile, cfgOrig, config, idx, results,
                   pfResult, handled, stdinReads, out, saveCalls, cfgWrites>>
    /\ UNCHANGED <<numVars, colVars>>

\* main, line 92, and the entry of print_files: an exception leaves main
\* (the interpreter exits with status 1), or print_files gets None and
\* returns False, or its loop starts.
MainParse ==
    /\ pc = "main"
    /\ argd.mode = "print"
    /\ LET r == parse_printer_config(argd, cfgFile, stdoutTty)
       IN  /\ config' = r.config
           /\ IF r.status = "raised"
              THEN /\ pc' = "crashed"
                   /\ exitCode' = ExitFail
                   /\ UNCHANGED pfResult
              ELSE IF r.status = "none"
                   THEN /\ pc' = "returned"
                        /\ pfResult' = FALSE
                        /\ UNCHANGED exitCode
                   ELSE /\ pc' = "print_files"
                        /\ UNCHANGED <<pfResult, exitCode>>
    /\ UNCHANGED <<argd, stdoutTty, cfgFile, cfgOrig, idx, results, handled,
                   stdinReads, out, saveCalls, cfgWrites>>
    /\ UNCHANGED <<numVars, colVars>>

\* print_files leaving its loop at the first item whose handler returns
\* False, instead of recording the result and going on.
PrintFilesItem_stops ==
    /\ pc = "print_files"
    /\ idx <= Len(config.FILE)
    /\ LET filename == config.FILE[idx]
           sl == set_lexer(filename, config)
           cfg == [config EXCEPT !.lexer = sl.lexer]
           h == IF filename_is_stdin(filename)
                THEN handle_stdin(cfg, handled)
                ELSE handle_file(filename, cfg)
       IN  /\ config' = cfg
           /\ IF ~sl.ok
              THEN /\ pc' = "returned"
                   /\ pfResult' = FALSE
                   /\ UNCHANGED <<idx, results, handled, stdinReads, out>>
              ELSE /\ idx' = idx + 1
                   /\ results' = Append(results, h.ret)
                   /\ out' = Append(out, h.ev)
                   /\ IF filename_is_stdin(filename)
                      THEN /\ handled' = h.handled
                           /\ stdinReads' = stdinReads + h.reads
                      ELSE UNCHANGED <<handled, stdinReads>>
                   /\ IF h.ret
                      THEN UNCHANGED <<pc, pfResult>>
                      ELSE /\ pc' = "returned"
                           /\ pfResult' = FALSE
    /\ UNCHANGED <<argd, stdoutTty, cfgFile, cfgOrig, saveCalls, cfgWrites, exitCode>>
    /\ UNCHANGED <<numVars, colVars>>

\* print_files passing over an item for which set_lexer fails (recording
\* False for it) and going on with the next one, instead of returning.
PrintFilesItem_skips ==
    /\ pc = "print_files"
    /\ idx <= Len(config.FILE)
    /\ LET filename == config.FILE[idx]
           sl == set_lexer(filename, config)
           cfg == [config EXCEPT !.lexer = sl.lexer]
           h == IF filename_is_stdin(filename)
                THEN handle_stdin(cfg, handled)
                ELSE handle_file(filename, cfg)
       IN  /\ config' = cfg
           /\ idx' = idx + 1
           /\ UNCHANGED <<pc, pfResult>>
           /\ IF ~sl.ok
              THEN /\ results' = Append(results, FALSE)
                   /\ UNCHANGED <<handled, stdinReads, out>>
              ELSE /\ results' = Append(results, h.ret)
                   /\ out' = Append(out, h.ev)
                   /\ IF filename_is_stdin(filename)
                      THEN /\ handled' = h.handled
                           /\ stdinReads' = stdinReads + h.reads
                      ELSE UNCHANGED <<handled, stdinReads>>
    /\ UNCHANGED <<argd, stdoutTty, cfgFile, cfgOrig, saveCalls, cfgWrites, exitCode>>
    /\ UNCHANGED <<numVars, colVars>>

\* One turn of the loop of print_files, lines 414-425.
PrintFilesItem ==
    /\ pc = "print_files"
    /\ idx <= Len(config.FILE)
    /\ LET filename == config.FILE[idx]
           sl == set_lexer(filename, config)
           cfg == [config EXCEPT !.lexer = sl.lexer]
       IN  /\ config' = cfg
           /\ IF ~sl.ok
              THEN /\ pc' = "returned"
                   /\ pfResult' = FALSE
                   /\ UNCHANGED <<idx, results, handled, stdinReads, out>>
              ELSE /\ idx' = idx + 1
                   /\ UNCHANGED <<pc, pfResult>>
                   /\ IF filename_is_stdin(filename)
                      THEN LET h == handle_stdin(cfg, handled)
                           IN  /\ results' = Append(results, h.ret)
                               /\ handled' = h.handled
                               /\ stdinReads' = stdinReads + h.reads
                               /\ out' = Append(out, h.ev)
                      ELSE LET h == handle_file(filename, cfg)
                           IN  /\ results' = Append(results, h.ret)
                               /\ out' = Append(out, h.ev)
                               /\ UNCHANGED <<handled, stdinReads>>
    /\ UNCHANGED <<argd, stdoutTty, cfgFile, cfgOrig, saveCalls, cfgWrites, exitCode>>
    /\ UNCHANGED <<numVars, colVars>>

\* print_files, line 427: the loop is over.
PrintFilesReturn ==
    /\ pc = "print_files"
    /\ idx > Len(config.FILE)
    /\ pc' = "returned"
    /\ pfResult' = all(results)
    /\ UNCHANGED <<argd, stdoutTty, cfgFile, cfgOrig, config, idx, results,
                   handled, stdinReads, out, saveCalls, cfgWrites,
                   exitCode>>
    /\ UNCHANGED <<numVars, colVars>>

\* main with --nosave ignored: line 95 runs whatever the flag says.
MainNoSave_saves ==
    /\ pc = "returned"
    /\ argd.nosave
    /\ IF pfResult
       THEN LET r == save_config(config, cfgFile)
            IN  /\ cfgFile' = r.file
                /\ saveCalls' = saveCalls + 1
                /\ cfgWrites' = IF r.wrote THEN cfgWrites + 1 ELSE cfgWrites
                /\ Exit(IF r.ret THEN ExitOk ELSE ExitFail)
       ELSE /\ Exit(ExitFail)
            /\ UNCHANGED <<cfgFile, saveCalls, cfgWrites>>
    /\ UNCHANGED <<argd, stdoutTty, cfgOrig, config, idx, results, pfResult,
                   handled, stdinReads, out>>
    /\ UNCHANGED <<numVars, colVars>>

\* main, lines 93-94.
MainNoSave ==
    /\ pc = "returned"
    /\ argd.nosave
    /\ Exit(IF pfResult THEN ExitOk ELSE ExitFail)
    /\ UNCHANGED <<argd, stdoutTty, cfgFile, cfgOrig, config, idx, results,
                   pfResult, handled, stdinReads, out, saveCalls, cfgWrites>>
    /\ UNCHANGED <<numVars, colVars>>

\* main, line 95: print_files(config) and save_config(config).
MainSave ==
    /\ pc = "returned"
    /\ ~argd.nosave
    /\ IF pfResult
       THEN LET r == save_config(config, cfgFile)
            IN  /\ cfgFile' = r.file
                /\ saveCalls' = saveCalls + 1
                /\ cfgWrites' = IF r.wrote THEN cfgWrites + 1 ELSE cfgWrites
                /\ Exit(IF r.ret THEN ExitOk ELSE ExitFail)
       ELSE /\ Exit(ExitFail)
            /\ UNCHANGED <<cfgFile, saveCalls, cfgWrites>>
    /\ UNCHANGED <<argd, stdoutTty, cfgOrig, config, idx, results, pfResult,
                   handled, stdinReads, out>>
    /\ UNCHANGED <<numVars, colVars>>

Next ==
    \/ MainList
    \/ MainParse
    \/ PrintFilesItem
    \/ PrintFilesReturn
    \/ MainNoSave
    \/ MainSave

Spec == Init /\ [][Next]_vars

----------------------------------------------------------------------------
(* What a state says about the run *)

\* parse_printer_config returned a config and print_files entered its loop.
Parsed == config.formatter # NoneVal

\* load_config returned (no exception left it).
Loaded == pc # "main" /\ argd.mode = "print" /\ cfgOrig.kind # "nonmapping"

\* The persisted file holds a non-empty value for k.
Persisted(k) ==
    /\ cfgOrig.kind = "mapping"
    /\ k \in DOMAIN cfgOrig.data
    /\ truthy(cfgOrig.data[k])

----------------------------------------------------------------------------
(* C1 *)

\* C1: for every whitelisted key, the value load_config produces is the
\* command-line value when one was given (a non-empty value), otherwise the
\* persisted value when ccat.json holds a non-empty one, otherwise the unset
\* command-line default; a persisted value never replaces a given one.
C1_Precedence ==
    Loaded =>
        \A k \in CONFIGOPTS :
            /\ truthy(argd.opts[k]) => config.opts[k] = argd.opts[k]
            /\ (~truthy(argd.opts[k]) /\ Persisted(k)) =>
                   config.opts[k] = cfgOrig.data[k]
            /\ (~truthy(argd.opts[k]) /\ ~Persisted(k)) =>
                   (config.opts[k] = argd.opts[k] /\ ~truthy(config.opts[k]))

\* Both cases of the precedence in one run: --style solarized beats the
\* persisted monokai, and the persisted format is taken for the missing -f.
C1_Witness ==
    /\ Loaded
    /\ argd.opts["style"] = "solarized"
    /\ Persisted("style")
    /\ cfgOrig.data["style"] = "monokai"
    /\ config.opts["style"] = "solarized"
    /\ argd.opts["format"] = NoneVal
    /\ Persisted("format")
    /\ config.opts["format"] = "html"

----------------------------------------------------------------------------
(* C2 *)

\* C2: sys.stdin is read at most once in a run: the only item that reads it
\* is the first stdin item of the list, and every later one reads nothing.
C2_StdinReadOnce ==
    /\ stdinReads <= 1
    /\ \A i \in 1..Len(out) :
           filename_is_stdin(config.FILE[i]) =>
               IF \E j \in 1..(i - 1) : filename_is_stdin(config.FILE[j])
               THEN out[i].what = "stdin_skipped" /\ out[i].via = "none"
               ELSE out[i].what = "stdin" /\ stdinReads = 1

\* A list that names stdin twice, both handled.
C2_Witness ==
    /\ stdinReads = 1
    /\ \E i, j \in 1..Len(out) :
           i < j /\ out[i].what = "stdin" /\ out[j].what = "stdin_skipped"

----------------------------------------------------------------------------
(* C6 *)

\* The whitelisted keys with a non-empty value in the effective config.
NonEmptyOpts == {k \in CONFIGOPTS : truthy(config.opts[k])}

\* C6: save_config writes ccat.json if and only if some whitelisted key has
\* a non-empty value in the effective config; what it writes holds exactly
\* those keys with those values; otherwise the file is left as it was.
C6_SaveWhitelist ==
    saveCalls = 1 =>
        /\ cfgWrites = 1 <=> NonEmptyOpts # {}
        /\ cfgWrites = 1 =>
               /\ cfgFile.kind = "mapping"
               /\ DOMAIN cfgFile.data = NonEmptyOpts
               /\ \A k \in NonEmptyOpts : cfgFile.data[k] = config.opts[k]
        /\ cfgWrites = 0 => cfgFile = cfgOrig

\* save_config wrote a file that leaves out an empty whitelisted value and
\* the non-empty --lexer, which is no whitelisted key.
C6_Witness ==
    /\ saveCalls = 1
    /\ cfgWrites = 1
    /\ truthy(config.opts["lexer"])
    /\ ~truthy(config.opts["style"])
    /\ cfgFile # cfgOrig

----------------------------------------------------------------------------
(* C7 *)

\* C7: with --nosave, and in the listing modes, save_config is never called
\* and ccat.json stays as it was.
C7_NoSave ==
    (argd.nosave \/ argd.mode # "print") =>
        /\ saveCalls = 0
        /\ cfgWrites = 0
        /\ cfgFile = cfgOrig

\* A --nosave run that printed everything and holds options worth saving.
C7_Witness ==
    /\ pc = "done"
    /\ argd.nosave
    /\ pfResult
    /\ exitCode = ExitOk
    /\ NonEmptyOpts # {}
    /\ cfgOrig.kind = "absent"

----------------------------------------------------------------------------
(* C3 *)

\* print_files went through the whole list.
LoopDone == Parsed /\ pc \in {"returned", "done"} /\ Len(out) = Len(config.FILE)

\* Item i is a repeated request for stdin, which was skipped.
Skipped(i) == out[i].what = "stdin_skipped"

\* C3: a repeated stdin item is a no-op and no error: when every other item
\* printed, print_files reports success, and main returns 0 under --nosave.
C3_RepeatIsNoError ==
    (/\ LoopDone
     /\ \E i \in 1..Len(out) : Skipped(i)
     /\ \A i \in 1..Len(out) : ~Skipped(i) => results[i])
        => /\ pfResult
           /\ (pc = "done" /\ argd.nosave) => exitCode = ExitOk

----------------------------------------------------------------------------
(* C4 *)

\* Every requested item printed: the options were valid, no lexer lookup
\* ended the loop, and no item failed (a skipped repeat of stdin is no
\* failure, see C3).
AllPrinted ==
    /\ LoopDone
    /\ \A i \in 1..Len(out) : ~Skipped(i) => results[i]

\* C4: a printing run ends with 0 if every item printed and with 1 if an item
\* failed or a style, formatter or lexer name was invalid; nothing else, not
\* what save_config returns, changes the exit code.
C4_ExitCode ==
    (pc = "done" /\ argd.mode = "print" /\ cfgOrig.kind # "nonmapping") =>
        (exitCode = ExitOk <=> AllPrinted)

----------------------------------------------------------------------------
(* C5 *)

\* Item i could not be opened.
OpenFailed(i) == out[i].what = "open_failed"

\* print_files has returned, and some item of the list could not be opened.
AfterOpenFailure ==
    /\ Parsed
    /\ pc \in {"returned", "done"}
    /\ \E i \in 1..Len(out) : OpenFailed(i)

----------------------------------------------------------------------------
(* C8 *)

\* C8: with stdout no terminal and no --colors, no item puts an ANSI escape
\* code on stdout: neither its file-name line nor its content carries one.
C8_NoAnsiWhenPiped ==
    (~stdoutTty /\ ~argd.colors) =>
        \A i \in 1..Len(out) : ~ansi_on_stdout(out[i], config)

----------------------------------------------------------------------------
(* C9 *)

\* C9: with stdout no terminal and no --colors, the 'linenos' print argument
\* is False, whatever --linenos and the persisted linenos say.
C9_NoLinenosWhenPiped ==
    (Parsed /\ ~stdoutTty /\ ~argd.colors) => ~truthy(config.linenos)

----------------------------------------------------------------------------
(* Line numbers *)

\* The most output lines of an input of the line-numbering runs.
MaxLines == 12

RECURSIVE str(_)
\* str(n) of a natural number, as its sequence of decimal digits.
str(n) == IF n < 10 THEN <<n>> ELSE str(n \div 10) \o <<n % 10>>

RECURSIVE zfill(_, _)
\* s.zfill(width)
zfill(s, width) == IF Len(s) >= width THEN s ELSE zfill(<<0>> \o s, width)

\* The number get_line_formatter's formatline(i, l) puts before a line; no
\* digits at all without linenos.
get_line_formatter(maxnum, linenos, i) ==
    IF linenos THEN zfill(str(i), Len(str(maxnum))) ELSE <<>>

\* print_file, lines 392-396: the prefix of the line at index i of
\* enumerate(hilitelines).
print_file_prefix(n, linenos, i) == get_line_formatter(n, linenos, i + 1)

\* pipe_file_linenos, lines 318-320: the prefix of the line at index i of
\* enumerate(lines).
pipe_file_linenos_prefix(n, i) == zfill(str(i), Len(str(n)))

\* An input of numLines output lines goes to print_file, with or without
\* linenos, or to pipe_file_linenos.
InitLines ==
    /\ Start(Argd("print", NoneVal, NoneVal, NoneVal, <<FalseVal, FALSE>>,
                  <<FALSE, FALSE>>, <<NoneVal, FALSE>>, FALSE, FALSE, <<>>),
             TRUE, FileAbsent)
    /\ numLines \in 0..MaxLines
    /\ \/ numPath = "print_file" /\ numLinenos \in BOOLEAN
       \/ numPath = "pipe_file_linenos" /\ numLinenos = TRUE
    /\ numOut = <<>>
    /\ ColIdle

\* print_file prints its next line.
PrintFileLine ==
    /\ numPath = "print_file"
    /\ Len(numOut) < numLines
    /\ numOut' = Append(numOut,
                        print_file_prefix(numLines, numLinenos, Len(numOut)))
    /\ UNCHANGED <<numLines, numPath, numLinenos>>
    /\ UNCHANGED colVars
    /\ UNCHANGED <<argd, stdoutTty, cfgFile, cfgOrig, pc, config, idx, results,
                   pfResult, handled, stdinReads, out, saveCalls, cfgWrites,
                   exitCode>>

\* pipe_file_linenos prints its next line.
PipeFileLine ==
    /\ numPath = "pipe_file_linenos"
    /\ Len(numOut) < numLines
    /\ numOut' = Append(numOut, pipe_file_linenos_prefix(numLines, Len(numOut)))
    /\ UNCHANGED <<numLines, numPath, numLinenos>>
    /\ UNCHANGED colVars
    /\ UNCHANGED <<argd, stdoutTty, cfgFile, cfgOrig, pc, config, idx, results,
                   pfResult, handled, stdinReads, out, saveCalls, cfgWrites,
                   exitCode>>

NextLines == PrintFileLine \/ PipeFileLine

SpecLines == InitLines /\ [][NextLines]_vars

----------------------------------------------------------------------------
(* C10 *)

\* The number of decimal digits of n, for n below 1000.
DigitCount(n) == IF n < 10 THEN 1 ELSE IF n < 100 THEN 2 ELSE 3

RECURSIVE Value(_)
\* The number a sequence of decimal digits writes.
Value(ds) ==
    IF ds = <<>> THEN 0
    ELSE 10 * Value(SubSeq(ds, 1, Len(ds) - 1)) + ds[Len(ds)]

\* C10: with line numbering on, the k-th of n output lines carries the number
\* k, zero-padded to as many digits as n has, on the highlighted path and on
\* the raw path alike.
C10_LineNumbers ==
    numLinenos =>
        \A k \in 1..Len(numOut) :
            /\ Len(numOut[k]) = DigitCount(numLines)
            /\ Value(numOut[k]) = k

\* C10 on the highlighted path alone, where it holds.
C10_PrintFileOnly == numPath = "print_file" => C10_LineNumbers

----------------------------------------------------------------------------
(* C11 *)

\* The lexer the stated order yields for an item: the explicit name, then
\* the file name when there is one, then the content guess, which falls back
\* to plain text.
ResolvedInOrder(filename) ==
    IF config.guess THEN try_lexer_guess(filename)
    ELSE IF get_lexer_by_name(config.opts["lexer"]) # NoneVal
         THEN get_lexer_by_name(config.opts["lexer"])
         ELSE IF ~filename_is_stdin(filename)
                 /\ get_lexer_for_filename(filename) # NoneVal
              THEN get_lexer_for_filename(filename)
              ELSE try_lexer_guess(filename)

\* C11: lexer resolution goes explicit name, file name, content guess, plain
\* text, each failure falling through to the next: it never ends without a
\* lexer (no item ends print_files for want of one), and every highlighted
\* item is highlighted with the lexer that order yields.
C11_LexerOrder ==
    /\ (Parsed /\ pc = "done") => Len(out) = Len(config.FILE)
    /\ \A i \in 1..Len(out) :
           (out[i].via = "print_file" /\ out[i].wrote) =>
               out[i].lexer = ResolvedInOrder(IF out[i].what = "stdin"
                                              THEN NoneVal ELSE out[i].name)

----------------------------------------------------------------------------
(* C14 *)

\* C14: no problem with ccat.json is fatal to load_config: with the file
\* absent, unreadable or malformed (unparsable, or no key/value mapping) no
\* exception leaves it, and it returns the command-line values alone.
C14_ConfigProblemsNonFatal ==
    /\ pc # "crashed"
    /\ (/\ pc # "main"
        /\ argd.mode = "print"
        /\ cfgOrig.kind \in {"absent", "unreadable", "malformed", "nonmapping"})
           => config.opts = argd.opts

----------------------------------------------------------------------------
(* C15 *)

\* set_lexer fails for item j of the list.
LexerFails(j) == ~set_lexer(config.FILE[j], config).ok

\* print_files has returned from a list with an item set_lexer fails for.
AfterLexerFailure ==
    /\ Parsed
    /\ pc \in {"returned", "done"}
    /\ \E j \in 1..Len(config.FILE) : LexerFails(j)

Esc == "ESC"

DigitChars == <<"0", "1", "2", "3", "4", "5", "6", "7", "8", "9">>

\* str(n) as characters, for a non-negative int n.
strchars(n) == [i \in 1..Len(str(n)) |-> DigitChars[str(n)[i] + 1]]

\* namemap of ColorCodes.__init__: the name at position i has number i - 1.
namemap ==
    <<"black", "red", "green", "yellow", "blue", "magenta", "cyan", "white">>

\* 'light{}'.format(name) for the names of namemap, in the same order.
lightname ==
    <<"lightblack", "lightred", "lightgreen", "lightyellow", "lightblue",
      "lightmagenta", "lightcyan", "lightwhite">>

\* stylemap of ColorCodes.__init__: code and aliases.
stylemap ==
    << <<0, {"r", "reset", "reset_all"}>>,
       <<1, {"b", "bright", "bold"}>>,
       <<2, {"d", "dim"}>>,
       <<3, {"i", "italic"}>>,
       <<4, {"u", "underline", "underlined"}>>,
       <<5, {"f", "flash"}>>,
       <<7, {"h", "highlight", "hilight", "hilite", "reverse"}>>,
       <<22, {"n", "normal", "none"}>> >>

\* The keys of self.codes['fore'] (and of self.codes['back']) and of
\* self.codes['style'].
ColorNames ==
    {namemap[i] : i \in 1..Len(namemap)}
        \cup {lightname[i] : i \in 1..Len(lightname)} \cup {"reset"}
StyleNames == UNION {stylemap[i][2] : i \in 1..Len(stylemap)}

\* self.codes[stype].get(name, None); the empty str stands for None, which
\* the callers treat alike.
codes(stype, name) ==
    IF stype = "style"
    THEN IF name \in StyleNames
         THEN strchars(stylemap[CHOOSE i \in 1..Len(stylemap) :
                                    name \in stylemap[i][2]][1])
         ELSE <<>>
    ELSE LET base  == IF stype = "fore" THEN 30 ELSE 40
             light == IF stype = "fore" THEN 90 ELSE 100
         IN  IF \E i \in 1..Len(namemap) : namemap[i] = name
             THEN strchars(base + (CHOOSE i \in 1..Len(namemap) :
                                       namemap[i] = name) - 1)
             ELSE IF \E i \in 1..Len(lightname) : lightname[i] = name
             THEN strchars(light + (CHOOSE i \in 1..Len(lightname) :
                                        lightname[i] = name) - 1)
             ELSE IF name = "reset"
             THEN IF stype = "fore" THEN <<"3", "9">> ELSE <<"4", "9">>
             ELSE <<>>

\* self.codefmt, self.closing, self.extforefmt, self.extbackfmt
codefmt(s) == <<Esc, "[">> \o s \o <<"m">>
closing == <<Esc, "[", "m">>
extforefmt(s) == <<Esc, "[", "3", "8", ";", "5", ";">> \o s \o <<"m">>
extbackfmt(s) == <<Esc, "[", "4", "8", ";", "5", ";">> \o s \o <<"m">>

\* name.lower(); the names used here are lower case but for these two.
lower(name) ==
    IF name = "RED" THEN "red" ELSE IF name = "BOLD" THEN "bold" ELSE name

RECURSIVE join(_, _)
\* sep.join(strs)
join(sep, strs) ==
    IF strs = <<>> THEN <<>>
    ELSE IF Len(strs) = 1 THEN strs[1]
    ELSE strs[1] \o sep \o join(sep, Tail(strs))

\* The codes color_code collects when it visits userstyles in this order.
codes_in_order(order, userstyles) ==
    LET code(stype) ==
            codes(stype, IF userstyles[stype] \notin {NoneVal, ""}
                         THEN lower(userstyles[stype]) ELSE NoneVal)
        all_codes == [i \in 1..Len(order) |-> code(order[i])]
    IN  SelectSeq(all_codes, LAMBDA c : c # <<>>)

\* The same, with the colours visited before the style.
color_code_colors_first(fore, back, style) ==
    codefmt(join(<<";">>,
                 codes_in_order(<<"fore", "back", "style">>,
                                [fore |-> fore, back |-> back, style |-> style])))

\* color_code: userstyles is visited in the order it was written in, style,
\* back, fore (dicts keep insertion order).
color_code(fore, back, style) ==
    codefmt(join(<<";">>,
                 codes_in_order(<<"style", "back", "fore">>,
                                [fore |-> fore, back |-> back, style |-> style])))

\* text or ''
text_or_empty(text) == IF text = NoneText THEN <<>> ELSE text

colorize(text, fore, back, style) ==
    color_code(fore, back, style) \o text_or_empty(text) \o closing

colorword(text, fore, back, style) ==
    colorize(text_or_empty(text), fore, back, style)
        \o color_code(NoneVal, NoneVal, "reset_all") \o closing

\* The largest 256-colour number make_256color accepts.
MaxColor == 255

Digits == {DigitChars[i] : i \in 1..Len(DigitChars)}
DigitOf(c) == (CHOOSE i \in 1..Len(DigitChars) : DigitChars[i] = c) - 1

RECURSIVE strip(_)
\* s.strip(), which int() applies to a str
strip(s) ==
    IF s # <<>> /\ Head(s) = " " THEN strip(Tail(s))
    ELSE IF s # <<>> /\ s[Len(s)] = " " THEN strip(SubSeq(s, 1, Len(s) - 1))
    ELSE s

RECURSIVE digits_value(_)
\* The number a non-empty run of decimal digits denotes.
digits_value(ds) ==
    IF Len(ds) = 1 THEN DigitOf(ds[1])
    ELSE 10 * digits_value(SubSeq(ds, 1, Len(ds) - 1)) + DigitOf(ds[Len(ds)])

\* int(val): the int, or the exception it raises.  A str is stripped and must
\* be an optional sign and decimal digits; a float is truncated towards zero;
\* None is a TypeError, a NaN a ValueError, an infinity an OverflowError.
int(val) ==
    LET Ok(n) == [raised |-> NoneVal, ival |-> n]
        Raise(e) == [raised |-> e, ival |-> 0]
    IN  CASE val.kind = "none" -> Raise("TypeError")
          [] val.kind = "int" -> Ok(val.n)
          [] val.kind = "float" ->
                 Ok(IF val.n >= 0 THEN val.n \div 2 ELSE -((-val.n) \div 2))
          [] val.kind = "nan" -> Raise("ValueError")
          [] val.kind = "inf" -> Raise("OverflowError")
          [] val.kind = "str" ->
                 LET t == strip(val.s)
                     signed == t # <<>> /\ Head(t) \in {"+", "-"}
                     ds == IF signed THEN Tail(t) ELSE t
                 IN  IF ds # <<>> /\ \A i \in 1..Len(ds) : ds[i] \in Digits
                     THEN Ok(IF signed /\ Head(t) = "-"
                             THEN -digits_value(ds) ELSE digits_value(ds))
                     ELSE Raise("ValueError")

\* What a call gives back: the str it returns, or the exception it raises.
Returns(s) == [state |-> "returned", raised |-> NoneVal, ret |-> s]
Raises(e) == [state |-> "raised", raised |-> e, ret |-> <<>>]

\* make_256color(colortype, val).  Only TypeError and ValueError are turned
\* into Invalid256Color; any other exception of int() leaves as it is.
make_256color(colortype, val) ==
    LET i == int(val)
    IN  IF i.raised \in {"TypeError", "ValueError"}
        THEN Raises("Invalid256Color")
        ELSE IF i.raised # NoneVal THEN Raises(i.raised)
        ELSE IF i.ival < 0 \/ i.ival > MaxColor THEN Raises("Invalid256Color")
        ELSE IF colortype = "fore" THEN Returns(extforefmt(strchars(i.ival)))
        ELSE IF colortype = "back" THEN Returns(extbackfmt(strchars(i.ival)))
        ELSE Raises("Invalid256Color")

\* color256(text, fore, back, style): the style sequence, the back and fore
\* sequences, the text, self.codes['style']['reset_all'] and self.closing,
\* joined.  The style name is looked up as given (no lower()).
color256(text, fore, back, style) ==
    LET userstyle == IF style # NoneVal THEN codes("style", style) ELSE <<>>
        b == IF back.kind # "none" THEN make_256color("back", back)
             ELSE Returns(<<>>)
        f == IF fore.kind # "none" THEN make_256color("fore", fore)
             ELSE Returns(<<>>)
    IN  IF b.state = "raised" THEN b
        ELSE IF f.state = "raised" THEN f
        ELSE Returns((IF userstyle # <<>> THEN codefmt(userstyle) ELSE <<>>)
                     \o b.ret \o f.ret \o text_or_empty(text)
                     \o codes("style", "reset_all") \o closing)

\* How far beyond 0..MaxColor the numbers handed to make_256color go.
Margin == 2

\* The texts, names and values the colour functions are called with.
Texts == {NoneText, <<>>, <<"h", "i">>, <<"m", "0">>}
NameArgs == ColorNames \cup {NoneVal, "", "RED", "purple"}
StyleArgs == StyleNames \cup {NoneVal, "", "BOLD", "blink"}
StrArgs ==
    {<<"7">>, <<"2", "5", "5">>, <<"2", "5", "6">>, <<"-", "1">>,
     <<" ", "1", "2", " ">>, <<"+", "3">>, <<"r", "e", "d">>, <<>>,
     <<"1", ".", "5">>}
Values ==
    {PyNone, PyVal("inf", 0, <<>>), PyVal("nan", 0, <<>>)}
        \cup {PyVal("int", n, <<>>) : n \in (0 - Margin)..(MaxColor + Margin)}
        \cup {PyVal("float", n, <<>>) :
                  n \in (0 - 2 * Margin)..(2 * (MaxColor + Margin))}
        \cup {PyVal("str", 0, s) : s \in StrArgs}
Values256 ==
    {PyNone, PyVal("int", 0, <<>>), PyVal("int", 7, <<>>),
     PyVal("int", MaxColor, <<>>), PyVal("int", MaxColor + 1, <<>>),
     PyVal("int", 0 - 1, <<>>), PyVal("float", 7, <<>>),
     PyVal("str", 0, <<"7">>), PyVal("str", 0, <<"r", "e", "d">>)}
Styles256 == {NoneVal, "bold", "reset", "n", "BOLD", "blink"}

Call(fn, text, fore, back, style, colortype, val, fore256, back256) ==
    [fn |-> fn, text |-> text, fore |-> fore, back |-> back, style |-> style,
     colortype |-> colortype, val |-> val, fore256 |-> fore256,
     back256 |-> back256]

\* One call of a ColorCodes method, about to be made.
InitColor ==
    /\ Start(Argd("print", NoneVal, NoneVal, NoneVal, <<FalseVal, FALSE>>,
                  <<FALSE, FALSE>>, <<NoneVal, FALSE>>, FALSE, FALSE, <<>>),
             TRUE, FileAbsent)
    /\ NumIdle
    /\ colResult = [state |-> "pending", raised |-> NoneVal, ret |-> <<>>]
    /\ \/ \E fn \in {"colorize", "colorword"}, text \in Texts,
             fore \in NameArgs, back \in NameArgs, style \in StyleArgs :
              colCall = Call(fn, text, fore, back, style, NoneVal, PyNone,
                             PyNone, PyNone)
       \/ \E text \in Texts, fore \in Values256, back \in Values256,
             style \in Styles256 :
              colCall = Call("color256", text, NoneVal, NoneVal, style,
                             NoneVal, PyNone, fore, back)
       \/ \E colortype \in {"fore", "back", "middle"}, val \in Values :
              colCall = Call("make_256color", NoneText, NoneVal, NoneVal,
                             NoneVal, colortype, val, PyNone, PyNone)

RunIdle ==
    UNCHANGED <<argd, stdoutTty, cfgFile, cfgOrig, pc, config, idx, results,
                pfResult, handled, stdinReads, out, saveCalls, cfgWrites,
                exitCode, numVars>>

CallColorize ==
    /\ colCall.fn = "colorize"
    /\ colResult.state = "pending"
    /\ colResult' = Returns(colorize(colCall.text, colCall.fore, colCall.back,
                                     colCall.style))
    /\ UNCHANGED colCall
    /\ RunIdle

CallColorword ==
    /\ colCall.fn = "colorword"
    /\ colResult.state = "pending"
    /\ colResult' = Returns(colorword(colCall.text, colCall.fore, colCall.back,
                                      colCall.style))
    /\ UNCHANGED colCall
    /\ RunIdle

CallColor256 ==
    /\ colCall.fn = "color256"
    /\ colResult.state = "pending"
    /\ colResult' = color256(colCall.text, colCall.fore256, colCall.back256,
                             colCall.style)
    /\ UNCHANGED colCall
    /\ RunIdle

CallMake256Color ==
    /\ colCall.fn = "make_256color"
    /\ colResult.state = "pending"
    /\ colResult' = make_256color(colCall.colortype, colCall.val)
    /\ UNCHANGED colCall
    /\ RunIdle

NextColor == CallColorize \/ CallColorword \/ CallColor256 \/ CallMake256Color

SpecColor == InitColor /\ [][NextColor]_vars

\* ------------------------------------------------------------------------
\* C12: make_256color raises Invalid256Color for every value that is not an
\* integer in 0..255 (-1, 256, non-numeric values), without clamping, and for
\* every integer v in 0..255 it returns exactly ESC[38;5;vm (fore) or
\* ESC[48;5;vm (back).  A str that int() reads as an integer, which the
\* docstring allows, and a float without a fractional part count as the
\* integer they denote.
\* ------------------------------------------------------------------------

\* The decimal digits of a number below 1000, written out.
Decimal(v) ==
    IF v < 10 THEN <<DigitChars[v + 1]>>
    ELSE IF v < 100 THEN <<DigitChars[(v \div 10) + 1], DigitChars[(v % 10) + 1]>>
    ELSE <<DigitChars[(v \div 100) + 1], DigitChars[((v \div 10) % 10) + 1],
           DigitChars[(v % 10) + 1]>>

IsInteger(val) ==
    \/ val.kind = "int"
    \/ val.kind = "str" /\ int(val).raised = NoneVal
    \/ val.kind = "float" /\ val.n % 2 = 0

IntegerOf(val) == IF val.kind = "float" THEN val.n \div 2 ELSE int(val).ival

C12_OnlyIntegers0To255 ==
    (/\ colCall.fn = "make_256color"
     /\ colCall.colortype \in {"fore", "back"}
     /\ colResult.state # "pending")
        => IF IsInteger(colCall.val) /\ IntegerOf(colCall.val) \in 0..255
           THEN colResult =
                    Returns(<<Esc, "[",
                              IF colCall.colortype = "fore" THEN "3" ELSE "4",
                              "8", ";", "5", ";">>
                            \o Decimal(IntegerOf(colCall.val)) \o <<"m">>)
           ELSE colResult.raised = "Invalid256Color"

\* ------------------------------------------------------------------------
\* C13: for every valid or absent fore name, back name and style name, the
\* output of colorize and of colorword starts with ESC[, ends with ESC[m and
\* holds the text verbatim in between, after a single opening sequence in
\* which the style code comes before the colour codes.
\* ------------------------------------------------------------------------

\* Position of the first "m" of s (0 when there is none).
FirstM(s) ==
    IF \E k \in 1..Len(s) : s[k] = "m"
    THEN CHOOSE k \in 1..Len(s) : s[k] = "m" /\ \A j \in 1..(k - 1) : s[j] # "m"
    ELSE 0

RECURSIVE SplitCodes(_)
\* The numbers of a ';'-separated list of decimal codes.
SplitCodes(s) ==
    IF s = <<>> THEN <<>>
    ELSE IF \E k \in 1..Len(s) : s[k] = ";"
    THEN LET k == CHOOSE k \in 1..Len(s) :
                      s[k] = ";" /\ \A j \in 1..(k - 1) : s[j] # ";"
         IN  <<digits_value(SubSeq(s, 1, k - 1))>>
                 \o SplitCodes(SubSeq(s, k + 1, Len(s)))
    ELSE <<digits_value(s)>>

IsStyleCode(c) == c < 30
IsForeCode(c) == c \in 30..39 \/ c \in 90..97
IsBackCode(c) == c \in 40..49 \/ c \in 100..107

WrapCall ==
    /\ colCall.fn \in {"colorize", "colorword"}
    /\ colResult.state = "returned"
    /\ colCall.fore \in ColorNames \cup {NoneVal}
    /\ colCall.back \in ColorNames \cup {NoneVal}
    /\ colCall.style \in StyleNames \cup {NoneVal}

C13_WrapShape ==
    WrapCall =>
        LET o == colResult.ret
            t == IF colCall.text = NoneText THEN <<>> ELSE colCall.text
            k == FirstM(o)
            opening == SubSeq(o, 3, k - 1)
            cs == SplitCodes(opening)
            Count(P(_)) == Cardinality({i \in 1..Len(cs) : P(cs[i])})
        IN  /\ Len(o) >= 2 /\ o[1] = Esc /\ o[2] = "["
            /\ k >= 3
            /\ \A i \in 1..Len(opening) : opening[i] \in Digits \cup {";"}
            /\ Len(o) >= k + Len(t) + 3
            /\ SubSeq(o, k + 1, k + Len(t)) = t
            /\ SubSeq(o, Len(o) - 2, Len(o)) = <<Esc, "[", "m">>
            /\ Count(IsStyleCode) = (IF colCall.style = NoneVal THEN 0 ELSE 1)
            /\ Count(IsForeCode) = (IF colCall.fore = NoneVal THEN 0 ELSE 1)
            /\ Count(IsBackCode) = (IF colCall.back = NoneVal THEN 0 ELSE 1)
            /\ \A i \in 1..Len(cs) : IsStyleCode(cs[i]) => i = 1

C13_Witness ==
    /\ colCall.fn = "colorword"
    /\ colCall.text = <<"h", "i">>
    /\ colCall.fore = "red"
    /\ colCall.back = "lightblue"
    /\ colCall.style = "bold"
    /\ colResult.state = "returned"
    /\ colResult.ret = <<Esc, "[", "1", ";", "1", "0", "4", ";", "3", "1", "m",
                         "h", "i", Esc, "[", "m",
                         Esc, "[", "0", "m", Esc, "[", "m">>

\* ------------------------------------------------------------------------
\* C16: the output of color256 for any text, any valid or absent fore and
\* back number and any valid or absent style is the text with escape
\* sequences around it: taking every ESC[...m out of it leaves the text.
\* ------------------------------------------------------------------------

RECURSIVE StripEscapes(_)
StripEscapes(s) ==
    IF s = <<>> THEN <<>>
    ELSE IF Len(s) >= 2 /\ s[1] = Esc /\ s[2] = "[" /\ FirstM(s) > 0
    THEN StripEscapes(SubSeq(s, FirstM(s) + 1, Len(s)))
    ELSE <<s[1]>> \o StripEscapes(Tail(s))

IsValid256(val) ==
    val.kind = "none" \/ (val.kind = "int" /\ val.n \in 0..255)

C16_OnlyEscapesAroundText ==
    (/\ colCall.fn = "color256"
     /\ colResult.state # "pending"
     /\ IsValid256(colCall.fore256)
     /\ IsValid256(colCall.back256)
     /\ colCall.style \in StyleNames \cup {NoneVal})
        => /\ colResult.state = "returned"
           /\ StripEscapes(colResult.ret) =
                  (IF colCall.text = NoneText THEN <<>> ELSE colCall.text)

====
